---- MODULE Spec2Model ----
(***************************************************************************)
(* The browser kernel reducer of js/Flux/BrowserReducer.js as a state      *)
(* machine.  Every handler of the reducer is an operator from a state      *)
(* record and a payload to the next state record, written after the        *)
(* handler's code; one action per handler applies it to the current state. *)
(***************************************************************************)
EXTENDS Naturals, Sequences, FiniteSets

VARIABLES isShell, shellManifestUrl, shellInitialUrl, isHomeVisible,
          isKernelLoading, foregroundTaskUrl, tasks, history, last, inputs

vars == <<isShell, shellManifestUrl, shellInitialUrl, isHomeVisible,
          isKernelLoading, foregroundTaskUrl, tasks, history, last, inputs>>

(***************************************************************************)
(* Values.  JavaScript null is NULL and JavaScript undefined is UNDEFINED,  *)
(* two values that differ from each other (null !== undefined, and a Map   *)
(* keeps them as two keys) and from every JavaScript string: the strings   *)
(* of the program are the strings of Strings, which stand for themselves   *)
(* ("" is the empty string, which JavaScript treats as false).  A plain    *)
(* object is a record with the fields it has: reading a field it lacks     *)
(* gives UNDEFINED, while a Record made from it takes the default for that *)
(* field.  An optional record (loadingError) is the empty tuple when null  *)
(* and a one-element tuple holding the record otherwise.                   *)
(***************************************************************************)
NULL == "<null>"

UNDEFINED == "<undefined>"

\* The JavaScript strings of the model; none of them is NULL or UNDEFINED.
Strings == {"a", "b", "c", ""}

\* let { f } = object: the field's value, undefined when the object lacks it.
Prop(object, f) == IF f \in DOMAIN object THEN object[f] ELSE UNDEFINED

\* url == null: true of null and of undefined.
Nullish(v) == v = NULL \/ v = UNDEFINED

None == <<>>

Some(x) == <<x>>

\* JavaScript truthiness of a url value: null, undefined and "" are falsy.
Truthy(v) == ~Nullish(v) /\ v # ""

\* Bound of the model: the longest history list a then phase carries.
MaxPayloadLen == 2

(***************************************************************************)
(* Immutable.js: Record, Map and List.                                     *)
(***************************************************************************)
\* new R(values) for a Record type with the given defaults: the record has
\* exactly the default's fields; a field the object lacks takes the default.
Record(defaults, values) ==
  [f \in DOMAIN defaults |->
     IF f \in DOMAIN values THEN values[f] ELSE defaults[f]]

EmptyMap == [k \in {} |-> NULL]

MapHas(m, k) == k \in DOMAIN m

MapSet(m, k, v) == [x \in DOMAIN m \cup {k} |-> IF x = k THEN v ELSE m[x]]

MapRemove(m, k) == [x \in DOMAIN m \ {k} |-> m[x]]

\* m.filter((v, k) => ...) for the keys the test keeps.
MapRestrict(m, keys) == [x \in DOMAIN m \cap keys |-> m[x]]

\* list.unshift(x)
Unshift(list, x) == <<x>> \o list

\* Immutable.fromJS: a plain document becomes its immutable counterpart;
\* null and values that are already immutable are returned as they are.
FromJS(doc) ==
  CASE doc = "js:manifest1" -> "im:manifest1"
    [] doc = "js:manifest2" -> "im:manifest2"
    [] OTHER -> doc

(***************************************************************************)
(* The Record types of the reducer, by their defaults.                     *)
(***************************************************************************)
BrowserState ==
  [ isShell           |-> FALSE,
    shellManifestUrl  |-> NULL,
    shellInitialUrl   |-> NULL,
    isHomeVisible     |-> TRUE,
    isKernelLoading   |-> FALSE,
    foregroundTaskUrl |-> NULL,
    tasks             |-> EmptyMap,
    history           |-> <<>> ]

LoadingError ==
  [ code |-> 0, message |-> NULL, originalUrl |-> NULL, manifest |-> NULL ]

HistoryItem ==
  [ url |-> NULL, bundleUrl |-> NULL, manifestUrl |-> NULL,
    manifest |-> NULL, time |-> NULL ]

BrowserTask ==
  [ bundleUrl |-> NULL, manifestUrl |-> NULL, manifest |-> NULL,
    isLoading |-> FALSE, loadingError |-> None, initialProps |-> NULL ]

(***************************************************************************)
(* Helpers of the reducer.                                                 *)
(***************************************************************************)
createImmutableHistory(list) ==
  [i \in 1..Len(list) |-> Record(HistoryItem, list[i])]

createImmutableTask(meta) ==
  [ url  |-> meta.url,
    task |-> Record(BrowserTask,
               [ bundleUrl    |-> meta.bundleUrl,
                 manifestUrl  |-> meta.manifestUrl,
                 manifest     |-> FromJS(meta.manifest),
                 initialProps |-> meta.initialProps,
                 isLoading    |-> FALSE,
                 loadingError |-> None ]) ]

\* validateBrowserState without its filter.
validateBrowserState_NoFilter(state) == state

\* validateBrowserState keeping the shell's task whatever isShell is.
validateBrowserState_NoShellTest(state) ==
  LET fg == state.foregroundTaskUrl
      kept == { url \in DOMAIN state.tasks :
                  url = fg \/ url = state.shellManifestUrl }
  IN IF Truthy(fg)
     THEN [state EXCEPT !.tasks = MapRestrict(state.tasks, kept)]
     ELSE state

\* validateBrowserState with the shell test applied to every task.
validateBrowserState_ShellKeepsAll(state) ==
  LET fg == state.foregroundTaskUrl
      kept == { url \in DOMAIN state.tasks : url = fg \/ state.isShell }
  IN IF Truthy(fg)
     THEN [state EXCEPT !.tasks = MapRestrict(state.tasks, kept)]
     ELSE state

validateBrowserState(state) ==
  LET fg == state.foregroundTaskUrl
      kept == { url \in DOMAIN state.tasks :
                  \/ url = fg
                  \/ (state.isShell /\ url = state.shellManifestUrl) }
  IN IF Truthy(fg)
     THEN [state EXCEPT !.tasks = MapRestrict(state.tasks, kept)]
     ELSE state

\* seq.filter(...).size: filter gives a lazy Seq, whose size is not known
\* before it is iterated; its size property reads undefined, whatever the
\* values are and whatever the test keeps.
FilteredSeqSize(values) == UNDEFINED

\* size > 0 in JavaScript: undefined converts to NaN, and NaN > 0 is false.
GreaterThanZero(size) == IF size = UNDEFINED THEN FALSE ELSE size > 0

\* updatedTasks.valueSeq().filter(task => task.isLoading).size > 0
isAnythingLoading(updatedTasks) ==
  LET loadingTasks ==
        { k \in DOMAIN updatedTasks : updatedTasks[k].isLoading }
  IN GreaterThanZero(FilteredSeqSize(loadingTasks))

(***************************************************************************)
(* The handlers, one operator each: the state the handler returns.         *)
(***************************************************************************)
\* The begin phase removing the item with the same url only when it is the
\* first of the list.
navigateToUrlAsync_begin_HeadOnly(state, meta) ==
  LET made        == createImmutableTask(meta)
      historyItem == Record(HistoryItem, meta.historyItem)
      rest ==
        IF state.history # <<>> /\ Head(state.history).url = historyItem.url
        THEN Tail(state.history)
        ELSE state.history
  IN validateBrowserState(
       [state EXCEPT !.isHomeVisible     = FALSE,
                     !.foregroundTaskUrl = made.url,
                     !.tasks             = MapSet(state.tasks, made.url, made.task),
                     !.history           = Unshift(rest, historyItem)])

\* The begin phase without the removal of the item with the same url.
navigateToUrlAsync_begin_NoDedup(state, meta) ==
  LET made        == createImmutableTask(meta)
      historyItem == Record(HistoryItem, meta.historyItem)
  IN validateBrowserState(
       [state EXCEPT !.isHomeVisible     = FALSE,
                     !.foregroundTaskUrl = made.url,
                     !.tasks             = MapSet(state.tasks, made.url, made.task),
                     !.history           = Unshift(state.history, historyItem)])

navigateToUrlAsync_begin(state, meta) ==
  LET made        == createImmutableTask(meta)
      url         == made.url
      task        == made.task
      historyItem == Record(HistoryItem, meta.historyItem)
      Other(item) == item.url # historyItem.url
      newHistory  == Unshift(SelectSeq(state.history, Other), historyItem)
  IN validateBrowserState(
       [state EXCEPT !.isHomeVisible     = FALSE,
                     !.foregroundTaskUrl = url,
                     !.tasks             = MapSet(state.tasks, url, task),
                     !.history           = newHistory])

\* The then phase putting its list before the history it finds.
navigateToUrlAsync_then_KeepsOld(state, payload) ==
  [state EXCEPT !.history = createImmutableHistory(payload) \o state.history]

navigateToUrlAsync_then(state, payload) ==
  [state EXCEPT !.history = createImmutableHistory(payload)]

\* The catch phase also stopping every task's loading.
navigateToUrlAsync_catch_StopsTasks(state) ==
  [state EXCEPT !.isKernelLoading = FALSE,
                !.tasks = [url \in DOMAIN state.tasks |->
                             [state.tasks[url] EXCEPT !.isLoading = FALSE]]]

navigateToUrlAsync_catch(state) ==
  [state EXCEPT !.isKernelLoading = FALSE]

\* foregroundUrlAsync without the test that the url is a task.
foregroundUrlAsync_NoCheck(state, url) ==
  [state EXCEPT !.isHomeVisible = FALSE, !.foregroundTaskUrl = url]

foregroundUrlAsync(state, url) ==
  IF Nullish(url) \/ MapHas(state.tasks, url)
  THEN [state EXCEPT !.isHomeVisible = FALSE, !.foregroundTaskUrl = url]
  ELSE state

\* foregroundHomeAsync without the shell test.
foregroundHomeAsync_NoShellCheck(state) ==
  [state EXCEPT !.isHomeVisible = TRUE]

foregroundHomeAsync(state) ==
  IF state.isShell
  THEN state
  ELSE [state EXCEPT !.isHomeVisible = TRUE]

setKernelLoadingState(state, isLoading) ==
  [state EXCEPT !.isKernelLoading = isLoading]

\* setLoadingState keeping loadingError whatever the flag.
setLoadingState_NeverClearsError(state, url, isLoading) ==
  IF MapHas(state.tasks, url)
  THEN LET updatedTasks ==
             MapSet(state.tasks, url,
                    [state.tasks[url] EXCEPT !.isLoading = isLoading])
       IN [state EXCEPT !.isKernelLoading = isAnythingLoading(updatedTasks),
                        !.tasks = updatedTasks]
  ELSE state

\* setLoadingState clearing loadingError whatever the flag.
setLoadingState_AlwaysClearsError(state, url, isLoading) ==
  IF MapHas(state.tasks, url)
  THEN LET task == state.tasks[url]
           updatedTasks ==
             MapSet(state.tasks, url,
                    [task EXCEPT !.isLoading = isLoading,
                                 !.loadingError = None])
       IN [state EXCEPT !.isKernelLoading = isAnythingLoading(updatedTasks),
                        !.tasks = updatedTasks]
  ELSE state

setLoadingState(state, url, isLoading) ==
  IF MapHas(state.tasks, url)
  THEN LET task == state.tasks[url]
           updatedTasks ==
             MapSet(state.tasks, url,
                    [task EXCEPT !.isLoading = isLoading,
                                 !.loadingError =
                                    IF isLoading THEN None
                                    ELSE task.loadingError])
       IN [state EXCEPT !.isKernelLoading = isAnythingLoading(updatedTasks),
                        !.tasks = updatedTasks]
  ELSE state

setShellPropertiesAsync(state, shell, manifestUrl) ==
  [state EXCEPT !.isShell = shell,
                !.isHomeVisible = FALSE,
                !.shellManifestUrl = manifestUrl]

setInitialShellUrl(state, url) ==
  [state EXCEPT !.shellInitialUrl = url]

loadHistoryAsync_then(state, payload) ==
  [state EXCEPT !.history = createImmutableHistory(payload.history)]

clearHistoryAsync_then(state) ==
  [state EXCEPT !.history = <<>>]

\* showLoadingError always making a fresh task.
showLoadingError_FreshTask(state, payload) ==
  LET originalUrl == Prop(payload, "originalUrl")
      task == Record(BrowserTask,
                [ isLoading    |-> FALSE,
                  loadingError |-> Some(Record(LoadingError, payload)) ])
      updatedTasks == MapSet(state.tasks, originalUrl, task)
  IN validateBrowserState(
       [state EXCEPT !.isHomeVisible     = FALSE,
                     !.foregroundTaskUrl = originalUrl,
                     !.isKernelLoading   = isAnythingLoading(updatedTasks),
                     !.tasks             = updatedTasks])

showLoadingError(state, payload) ==
  LET originalUrl == Prop(payload, "originalUrl")
      error       == Some(Record(LoadingError, payload))
      task ==
        IF MapHas(state.tasks, originalUrl)
        THEN [state.tasks[originalUrl] EXCEPT !.isLoading = FALSE,
                                              !.initialProps = NULL,
                                              !.loadingError = error]
        ELSE Record(BrowserTask,
               [ manifestUrl  |-> NULL,
                 bundleUrl    |-> NULL,
                 manifest     |-> NULL,
                 isLoading    |-> FALSE,
                 initialProps |-> NULL,
                 loadingError |-> error ])
      updatedTasks == MapSet(state.tasks, originalUrl, task)
  IN validateBrowserState(
       [state EXCEPT !.isHomeVisible     = FALSE,
                     !.foregroundTaskUrl = originalUrl,
                     !.isKernelLoading   = isAnythingLoading(updatedTasks),
                     !.tasks             = updatedTasks])

\* clearTaskWithError evicting every task.
clearTaskWithError_ClearAll(state, url) ==
  IF MapHas(state.tasks, url)
  THEN [state EXCEPT !.isHomeVisible = TRUE,
                     !.foregroundTaskUrl = NULL,
                     !.tasks = EmptyMap]
  ELSE state

\* clearTaskWithError leaving foregroundTaskUrl as it is.
clearTaskWithError_KeepForeground(state, url) ==
  IF MapHas(state.tasks, url)
  THEN [state EXCEPT !.isHomeVisible = TRUE,
                     !.tasks = MapRemove(state.tasks, url)]
  ELSE state

clearTaskWithError(state, url) ==
  IF MapHas(state.tasks, url)
  THEN [state EXCEPT !.isHomeVisible = TRUE,
                     !.foregroundTaskUrl = NULL,
                     !.tasks = MapRemove(state.tasks, url)]
  ELSE state

\* logUncaughtError deriving isKernelLoading again.
logUncaughtError_DerivesKernelLoading(state, url) ==
  IF MapHas(state.tasks, url)
  THEN LET updatedTasks ==
             MapSet(state.tasks, url,
                    [state.tasks[url] EXCEPT !.isLoading = FALSE])
       IN [state EXCEPT !.isKernelLoading = isAnythingLoading(updatedTasks),
                        !.tasks = updatedTasks]
  ELSE state

\* logUncaughtError without the test that the url is a task.
logUncaughtError_CreatesTask(state, url) ==
  LET task == IF MapHas(state.tasks, url) THEN state.tasks[url] ELSE BrowserTask
  IN [state EXCEPT !.tasks =
        MapSet(state.tasks, url, [task EXCEPT !.isLoading = FALSE])]

logUncaughtError(state, url) ==
  IF MapHas(state.tasks, url)
  THEN [state EXCEPT !.tasks =
          MapSet(state.tasks, url, [state.tasks[url] EXCEPT !.isLoading = FALSE])]
  ELSE state

(***************************************************************************)
(* The inputs of the actions.  The dispatcher's payloads are drawn from    *)
(* one of a few small universes, chosen when the store is created and kept *)
(* in inputs; each universe is a set of payloads the application can send. *)
(***************************************************************************)
\* The plain objects history lists and meta.historyItem are made of; the
\* fields an object leaves out take the record's defaults.
ItemA1 == [url |-> "a", time |-> "t1"]

ItemA2 == [url |-> "a", time |-> "t2"]

ItemB1 == [url |-> "b", time |-> "t1", bundleUrl |-> "bundle-b"]

\* An object without url (the item's url is the default, null) and one whose
\* url is undefined (the item's url is undefined).
ItemNoUrl == [time |-> "t1"]

ItemUndefinedUrl == [url |-> UNDEFINED, time |-> "t1"]

\* navUrls: the urls of navigateToUrlAsync and showLoadingError;
\* taskUrls: the urls of foregroundUrlAsync, setLoadingState,
\*   clearTaskWithError and logUncaughtError;
\* shellModes, shellUrls: the payloads of setShellPropertiesAsync;
\* initialUrls: the urls of setInitialShellUrl;
\* navItems: the history items of navigateToUrlAsync;
\* listItems: the items of the history lists of the then phases;
\* codes: the error codes of showLoadingError.
Shell ==
  [ navUrls |-> {"a", "b", "c"}, taskUrls |-> {"a", NULL},
    shellModes |-> BOOLEAN, shellUrls |-> {"a", "b"}, initialUrls |-> {},
    navItems |-> {ItemA1}, listItems |-> {}, codes |-> {404} ]

Falsy ==
  [ navUrls |-> {"a", "", NULL}, taskUrls |-> {"", NULL},
    shellModes |-> {TRUE}, shellUrls |-> {"a"}, initialUrls |-> {},
    navItems |-> {ItemA1}, listItems |-> {}, codes |-> {404} ]

\* Payloads that leave the url out (it reads undefined) or carry null.
Absent ==
  [ navUrls |-> {NULL, UNDEFINED}, taskUrls |-> {NULL, UNDEFINED},
    shellModes |-> {}, shellUrls |-> {}, initialUrls |-> {},
    navItems |-> {ItemNoUrl, ItemUndefinedUrl}, listItems |-> {},
    codes |-> {404} ]

Log ==
  [ navUrls |-> {"a", "b"}, taskUrls |-> {"a"},
    shellModes |-> {}, shellUrls |-> {}, initialUrls |-> {"a"},
    navItems |-> {ItemA1, ItemA2, ItemB1},
    listItems |-> {ItemA1, ItemA2, ItemB1}, codes |-> {404, 500} ]

Universes == {Shell, Falsy, Absent, Log}

\* action.meta of navigateToUrlAsync for a url and a history item object.
Meta(url, item) ==
  [ url |-> url, bundleUrl |-> "bundle", manifestUrl |-> "manifestUrl",
    manifest |-> "js:manifest1", initialProps |-> "props",
    historyItem |-> item ]

Metas(U) == { Meta(u, h) : u \in U.navUrls, h \in U.navItems }

\* The payloads of showLoadingError; message and manifest are left out, and
\* where the urls may be undefined so is originalUrl in one more payload.
ErrorPayloads(U) ==
  { [originalUrl |-> u, code |-> c] : u \in U.navUrls, c \in U.codes }
    \cup IF UNDEFINED \in U.navUrls
         THEN { [code |-> c] : c \in U.codes }
         ELSE {}

RECURSIVE ListsUpTo(_, _)
ListsUpTo(S, n) ==
  IF n = 0 THEN {<<>>}
  ELSE LET shorter == ListsUpTo(S, n - 1)
       IN shorter \cup { Unshift(l, x) : l \in shorter, x \in S }

\* The history lists the then phases carry.
HistoryPayloads(U) == ListsUpTo(U.listItems, MaxPayloadLen)

(***************************************************************************)
(* The state machine: the store holds one state; the dispatcher delivers   *)
(* one action at a time and the store replaces its state by the handler's  *)
(* result.  last records the action delivered last.                        *)
(***************************************************************************)
State ==
  [ isShell           |-> isShell,
    shellManifestUrl  |-> shellManifestUrl,
    shellInitialUrl   |-> shellInitialUrl,
    isHomeVisible     |-> isHomeVisible,
    isKernelLoading   |-> isKernelLoading,
    foregroundTaskUrl |-> foregroundTaskUrl,
    tasks             |-> tasks,
    history           |-> history ]

Replace(s) ==
  /\ isShell'           = s.isShell
  /\ shellManifestUrl'  = s.shellManifestUrl
  /\ shellInitialUrl'   = s.shellInitialUrl
  /\ isHomeVisible'     = s.isHomeVisible
  /\ isKernelLoading'   = s.isKernelLoading
  /\ foregroundTaskUrl' = s.foregroundTaskUrl
  /\ tasks'             = s.tasks
  /\ history'           = s.history
  /\ UNCHANGED inputs

Action(type, url, flag) == [type |-> type, url |-> url, flag |-> flag]

\* The store starts from new BrowserState().
InitWith(U) ==
  /\ inputs            = U
  /\ isShell           = BrowserState.isShell
  /\ shellManifestUrl  = BrowserState.shellManifestUrl
  /\ shellInitialUrl   = BrowserState.shellInitialUrl
  /\ isHomeVisible     = BrowserState.isHomeVisible
  /\ isKernelLoading   = BrowserState.isKernelLoading
  /\ foregroundTaskUrl = BrowserState.foregroundTaskUrl
  /\ tasks             = BrowserState.tasks
  /\ history           = BrowserState.history
  /\ last              = Action("init", NULL, FALSE)

Init == \E U \in Universes : InitWith(U)

NavigateBegin ==
  \E meta \in Metas(inputs) :
    /\ Replace(navigateToUrlAsync_begin(State, meta))
    /\ last' = Action("navigateToUrlAsync.begin", meta.url, FALSE)

NavigateThenWith(payload) ==
  /\ Replace(navigateToUrlAsync_then(State, payload))
  /\ last' = Action("navigateToUrlAsync.then", NULL, FALSE)

NavigateThen == \E payload \in HistoryPayloads(inputs) : NavigateThenWith(payload)

NavigateCatch ==
  /\ Replace(navigateToUrlAsync_catch(State))
  /\ last' = Action("navigateToUrlAsync.catch", NULL, FALSE)

ForegroundUrl ==
  \E url \in inputs.taskUrls :
    /\ Replace(foregroundUrlAsync(State, url))
    /\ last' = Action("foregroundUrlAsync", url, FALSE)

ForegroundHome ==
  /\ Replace(foregroundHomeAsync(State))
  /\ last' = Action("foregroundHomeAsync", NULL, FALSE)

SetKernelLoading ==
  \E isLoading \in BOOLEAN :
    /\ Replace(setKernelLoadingState(State, isLoading))
    /\ last' = Action("setKernelLoadingState", NULL, isLoading)

SetLoading ==
  \E url \in inputs.taskUrls, isLoading \in BOOLEAN :
    /\ Replace(setLoadingState(State, url, isLoading))
    /\ last' = Action("setLoadingState", url, isLoading)

SetShellProperties ==
  \E shell \in inputs.shellModes, manifestUrl \in inputs.shellUrls :
    /\ Replace(setShellPropertiesAsync(State, shell, manifestUrl))
    /\ last' = Action("setShellPropertiesAsync", manifestUrl, shell)

SetInitialShellUrl ==
  \E url \in inputs.initialUrls :
    /\ Replace(setInitialShellUrl(State, url))
    /\ last' = Action("setInitialShellUrl", url, FALSE)

LoadHistoryThenWith(list) ==
  /\ Replace(loadHistoryAsync_then(State, [history |-> list]))
  /\ last' = Action("loadHistoryAsync.then", NULL, FALSE)

LoadHistoryThen == \E list \in HistoryPayloads(inputs) : LoadHistoryThenWith(list)

ClearHistoryThen ==
  /\ Replace(clearHistoryAsync_then(State))
  /\ last' = Action("clearHistoryAsync.then", NULL, FALSE)

ShowLoadingError ==
  \E payload \in ErrorPayloads(inputs) :
    /\ Replace(showLoadingError(State, payload))
    /\ last' = Action("showLoadingError", Prop(payload, "originalUrl"), FALSE)

ClearTaskWithError ==
  \E url \in inputs.taskUrls :
    /\ Replace(clearTaskWithError(State, url))
    /\ last' = Action("clearTaskWithError", url, FALSE)

LogUncaughtError ==
  \E url \in inputs.taskUrls :
    /\ Replace(logUncaughtError(State, url))
    /\ last' = Action("logUncaughtError", url, FALSE)

Next ==
  \/ NavigateBegin
  \/ NavigateThen
  \/ NavigateCatch
  \/ ForegroundUrl
  \/ ForegroundHome
  \/ SetKernelLoading
  \/ SetLoading
  \/ SetShellProperties
  \/ SetInitialShellUrl
  \/ LoadHistoryThen
  \/ ClearHistoryThen
  \/ ShowLoadingError
  \/ ClearTaskWithError
  \/ LogUncaughtError

Spec == Init /\ [][Next]_vars

(***************************************************************************)
(* Properties.                                                             *)
(***************************************************************************)
SomeTaskLoading == \E url \in DOMAIN tasks : tasks[url].isLoading

\* The urls of a history list, in order.
UrlsOf(list) == [i \in 1..Len(list) |-> list[i].url]

\* No two items of the list share a url.
NoRepeatedUrl(list) ==
  \A i, j \in 1..Len(list) : i # j => list[i].url # list[j].url

\* C1 as stated, for the transition that derives the flag: right after
\* setLoadingState for a key of tasks, isKernelLoading is true exactly when
\* some task has isLoading = true.
C1_KernelLoadingAfterSetLoading ==
  (last.type = "setLoadingState" /\ MapHas(tasks, last.url))
    => (isKernelLoading <=> SomeTaskLoading)

\* The state after begin navigation for a and then for b, from the default.
AfterBeginAB ==
  navigateToUrlAsync_begin(
    navigateToUrlAsync_begin(BrowserState, Meta("a", ItemA1)),
    Meta("b", ItemB1))

\* C2 as stated: from the default state, after begin navigation for a, for b
\* and for a again, history is [a, b], tasks holds a and b, and a is in the
\* foreground.
C2_TasksKeptAcrossNavigations ==
  State = AfterBeginAB =>
    LET s == navigateToUrlAsync_begin(State, Meta("a", ItemA2))
    IN /\ UrlsOf(s.history) = <<"a", "b">>
       /\ {"a", "b"} \subseteq DOMAIN s.tasks
       /\ s.foregroundTaskUrl = "a"

\* C2, amended: from the default state (not a shell), after begin navigation
\* for a, for b and for a again, history is [a, b] with the new item of a at
\* the front, a is in the foreground, and tasks holds a alone.
C2_OnlyForegroundTaskKept ==
  State = AfterBeginAB =>
    LET s == navigateToUrlAsync_begin(State, Meta("a", ItemA2))
    IN /\ s.history = createImmutableHistory(<<ItemA2, ItemB1>>)
       /\ DOMAIN s.tasks = {"a"}
       /\ s.foregroundTaskUrl = "a"
       /\ ~s.isShell

\* The store after the three navigations.
C2_Witness ==
  /\ last = Action("navigateToUrlAsync.begin", "a", FALSE)
  /\ State = navigateToUrlAsync_begin(AfterBeginAB, Meta("a", ItemA2))

\* C3 as stated: in every reachable state history has at most one item per
\* url.
C3_HistoryUrlsUnique == NoRepeatedUrl(history)

\* The then phases of navigateToUrlAsync and loadHistoryAsync.
ThenPhases == {"navigateToUrlAsync.then", "loadHistoryAsync.then"}

\* C3, amended: a history with at most one item per url keeps that property
\* across every transition other than a then phase of navigateToUrlAsync or
\* loadHistoryAsync; after such a then phase history is the phase's list as
\* it was given, repeated urls included.
C3_HistoryUrlsUniqueButForThenPhases ==
  /\ [][ (NoRepeatedUrl(history) /\ last'.type \notin ThenPhases)
           => NoRepeatedUrl(history') ]_vars
  /\ [](last.type \in ThenPhases =>
          \E list \in HistoryPayloads(inputs) :
            history = createImmutableHistory(list))

\* Begin navigation for a with [a, b] as history: the new item of a stands
\* before b and the old item of a is gone.
C3_Witness ==
  /\ last.type = "navigateToUrlAsync.begin"
  /\ history = createImmutableHistory(<<ItemA2, ItemB1>>)

\* Every task is the foreground task or the shell's task.
OnlyForegroundAndShellTasks ==
  \A url \in DOMAIN tasks : url = foregroundTaskUrl \/ url = shellManifestUrl

\* C4 as stated: in every reachable state with isShell = true and a
\* foreground url that is set (neither null nor empty), every key of tasks
\* is foregroundTaskUrl or shellManifestUrl.
C4_ShellTasksAlways ==
  (isShell /\ Truthy(foregroundTaskUrl)) => OnlyForegroundAndShellTasks

\* C4, amended: right after begin navigation or showLoadingError with
\* isShell = true and a foreground url that is set (neither null nor empty),
\* every key of tasks is foregroundTaskUrl or shellManifestUrl.
C4_ShellTasksAfterFilter ==
  ( /\ last.type \in {"navigateToUrlAsync.begin", "showLoadingError"}
    /\ isShell
    /\ Truthy(foregroundTaskUrl) )
    => OnlyForegroundAndShellTasks

\* In a shell, a navigation left the foreground task and the shell's task.
C4_Witness ==
  /\ last.type = "navigateToUrlAsync.begin"
  /\ isShell
  /\ Truthy(foregroundTaskUrl)
  /\ foregroundTaskUrl # shellManifestUrl
  /\ DOMAIN tasks = {foregroundTaskUrl, shellManifestUrl}

\* C5: in every reachable state a foregroundTaskUrl that is not null (nor
\* undefined) is a key of tasks.
C5_ForegroundTaskPresent ==
  ~Nullish(foregroundTaskUrl) => MapHas(tasks, foregroundTaskUrl)

\* A task was evicted while another task is kept: no foreground is left.
C5_Witness ==
  /\ last.type = "clearTaskWithError"
  /\ ~MapHas(tasks, last.url)
  /\ tasks # EmptyMap
  /\ isHomeVisible
  /\ foregroundTaskUrl = NULL

\* The url values the properties range over.
UrlValues == Strings \cup {NULL, UNDEFINED}

\* The two states agree on every field but the named ones.
SameExcept(s, t, fields) ==
  \A f \in DOMAIN BrowserState \ fields : s[f] = t[f]

\* C6: foregroundUrlAsync with a url that is not null (nor undefined) and is
\* no key of tasks returns the state unchanged; with null, undefined or a key
\* of tasks it sets foregroundTaskUrl to the url and isHomeVisible to false
\* and nothing else.
C6_ForegroundUrl ==
  \A url \in UrlValues :
    LET s == foregroundUrlAsync(State, url)
    IN IF ~Nullish(url) /\ ~MapHas(tasks, url)
       THEN s = State
       ELSE /\ s.foregroundTaskUrl = url
            /\ s.isHomeVisible = FALSE
            /\ SameExcept(s, State, {"foregroundTaskUrl", "isHomeVisible"})

\* A url that is no task was refused: home is still visible and the
\* foreground is another one.
C6_Witness ==
  /\ last.type = "foregroundUrlAsync"
  /\ ~Nullish(last.url)
  /\ ~MapHas(tasks, last.url)
  /\ foregroundTaskUrl # last.url
  /\ isHomeVisible

\* C7: foregroundHomeAsync returns the state unchanged when isShell = true;
\* otherwise it sets isHomeVisible = true and changes nothing else.
C7_ForegroundHome ==
  LET s == foregroundHomeAsync(State)
  IN IF isShell
     THEN s = State
     ELSE /\ s.isHomeVisible = TRUE
          /\ SameExcept(s, State, {"isHomeVisible"})

\* In a shell with a task in the foreground, home was refused.
C7_Witness ==
  /\ last.type = "foregroundHomeAsync"
  /\ isShell
  /\ ~isHomeVisible
  /\ MapHas(tasks, foregroundTaskUrl)

\* C8: clearTaskWithError for a key of tasks gives isHomeVisible = true,
\* foregroundTaskUrl = null and tasks without that key, every other task
\* kept; for another url the state is unchanged; applying it twice gives the
\* state of applying it once.
C8_ClearTaskWithError ==
  \A url \in UrlValues :
    LET s == clearTaskWithError(State, url)
    IN /\ IF MapHas(tasks, url)
          THEN /\ s.isHomeVisible = TRUE
               /\ s.foregroundTaskUrl = NULL
               /\ DOMAIN s.tasks = DOMAIN tasks \ {url}
               /\ \A other \in DOMAIN s.tasks : s.tasks[other] = tasks[other]
          ELSE s = State
       /\ clearTaskWithError(s, url) = s

\* In a shell a task was evicted and another task is kept.
C8_Witness ==
  /\ last.type = "clearTaskWithError"
  /\ isShell
  /\ isHomeVisible
  /\ foregroundTaskUrl = NULL
  /\ ~MapHas(tasks, last.url)
  /\ tasks # EmptyMap

\* C9: setLoadingState for a url that is no key of tasks returns the state
\* unchanged; for a key of tasks it sets that task's isLoading to the flag,
\* clears its loadingError when the flag is true and keeps it otherwise, and
\* changes no other field of the task, no other task and no field of the
\* state but isKernelLoading.
C9_SetLoadingState ==
  \A url \in UrlValues, isLoading \in BOOLEAN :
    LET s == setLoadingState(State, url, isLoading)
    IN IF ~MapHas(tasks, url)
       THEN s = State
       ELSE /\ DOMAIN s.tasks = DOMAIN tasks
            /\ \A other \in DOMAIN tasks \ {url} : s.tasks[other] = tasks[other]
            /\ s.tasks[url].isLoading = isLoading
            /\ s.tasks[url].loadingError =
                 IF isLoading THEN None ELSE tasks[url].loadingError
            /\ \A f \in DOMAIN BrowserTask \ {"isLoading", "loadingError"} :
                 s.tasks[url][f] = tasks[url][f]
            /\ SameExcept(s, State, {"tasks", "isKernelLoading"})

\* A task with a loading error was told it is not loading: the error stays.
C9_Witness ==
  /\ last.type = "setLoadingState"
  /\ ~last.flag
  /\ MapHas(tasks, last.url)
  /\ tasks[last.url].loadingError # None
  /\ ~tasks[last.url].isLoading

\* C10: after showLoadingError with originalUrl u, tasks holds u with
\* isLoading = false, initialProps = null and a loadingError with the
\* payload's code and originalUrl, u is in the foreground and home is
\* hidden; bundleUrl, manifestUrl and manifest are those of the task that
\* was at u, or null when there was none.  For a payload without originalUrl
\* u reads undefined and the loadingError has the default originalUrl, null.
C10_ShowLoadingError ==
  \A payload \in ErrorPayloads(inputs) :
    LET u == Prop(payload, "originalUrl")
        s == showLoadingError(State, payload)
    IN /\ MapHas(s.tasks, u)
       /\ s.tasks[u].isLoading = FALSE
       /\ s.tasks[u].initialProps = NULL
       /\ s.tasks[u].loadingError # None
       /\ s.tasks[u].loadingError[1].code = payload.code
       /\ s.tasks[u].loadingError[1].originalUrl =
            IF "originalUrl" \in DOMAIN payload THEN u
            ELSE LoadingError.originalUrl
       /\ s.foregroundTaskUrl = u
       /\ s.isHomeVisible = FALSE
       /\ \A f \in {"bundleUrl", "manifestUrl", "manifest"} :
            s.tasks[u][f] = IF MapHas(tasks, u) THEN tasks[u][f] ELSE NULL

\* The error was merged into the task a navigation had made.
C10_Witness ==
  /\ last.type = "showLoadingError"
  /\ MapHas(tasks, last.url)
  /\ tasks[last.url].bundleUrl = "bundle"
  /\ tasks[last.url].loadingError # None
  /\ foregroundTaskUrl = last.url

\* C11 as stated: right after showLoadingError for a url the filter runs on
\* (neither null, undefined nor empty), isKernelLoading is true exactly when
\* some task of the resulting tasks has isLoading = true.
C11_KernelLoadingAfterShowLoadingError ==
  (last.type = "showLoadingError" /\ Truthy(foregroundTaskUrl))
    => (isKernelLoading <=> SomeTaskLoading)

\* C12: begin navigation applied twice in a row gives the state of applying
\* it once, in every reachable state and for every meta.
C12_BeginIdempotent ==
  \A meta \in Metas(inputs) :
    LET s == navigateToUrlAsync_begin(State, meta)
    IN navigateToUrlAsync_begin(s, meta) = s

\* A begin navigation over a task that was loading and a history of two
\* urls: delivering it again changes nothing.
C12_Witness ==
  /\ last.type = "navigateToUrlAsync.begin"
  /\ Len(history) = 2
  /\ MapHas(tasks, last.url)
  /\ \E meta \in Metas(inputs) :
       /\ meta.url = last.url
       /\ Record(HistoryItem, meta.historyItem) = history[1]
       /\ navigateToUrlAsync_begin(State, meta) = State

\* The items of the list whose url is not the given one, in their order.
RECURSIVE WithoutUrl(_, _)
WithoutUrl(list, url) ==
  IF list = <<>> THEN <<>>
  ELSE IF Head(list).url = url
       THEN WithoutUrl(Tail(list), url)
       ELSE <<Head(list)>> \o WithoutUrl(Tail(list), url)

\* C13: after begin navigation with history item h, history starts with h,
\* no other item has h's url, and the rest is the previous history without
\* the items of that url, in the previous order.
C13_BeginPrependsAndRemoves ==
  \A meta \in Metas(inputs) :
    LET s == navigateToUrlAsync_begin(State, meta)
        h == Record(HistoryItem, meta.historyItem)
    IN /\ s.history # <<>>
       /\ Head(s.history) = h
       /\ \A i \in 2..Len(s.history) : s.history[i].url # h.url
       /\ Tail(s.history) = WithoutUrl(history, h.url)

\* Begin navigation for b put b's item before the item of a.
C13_Witness ==
  /\ last.type = "navigateToUrlAsync.begin"
  /\ history = createImmutableHistory(<<ItemB1, ItemA2>>)

\* The list holds the given objects in their order, every field an object
\* lacks being null.
HoldsExactly(list, objects) ==
  /\ Len(list) = Len(objects)
  /\ \A i \in 1..Len(objects) :
       \A f \in DOMAIN HistoryItem :
         list[i][f] = IF f \in DOMAIN objects[i] THEN objects[i][f] ELSE NULL

\* C14: after a then phase of navigateToUrlAsync or loadHistoryAsync history
\* is the phase's list in the given order, whatever it was before, and no
\* other field has changed.
C14_ThenReplacesHistory ==
  \A list \in HistoryPayloads(inputs) :
    LET s == navigateToUrlAsync_then(State, list)
        t == loadHistoryAsync_then(State, [history |-> list])
    IN /\ HoldsExactly(s.history, list)
       /\ SameExcept(s, State, {"history"})
       /\ HoldsExactly(t.history, list)
       /\ SameExcept(t, State, {"history"})

\* After begin navigations a then phase brought a list that repeats a.
C14_Witness ==
  /\ last.type = "navigateToUrlAsync.then"
  /\ history = createImmutableHistory(<<ItemA1, ItemA2>>)
  /\ foregroundTaskUrl = "b"
  /\ MapHas(tasks, "b")

\* C15: the catch phase of navigateToUrlAsync sets isKernelLoading = false
\* and changes no other field: history, tasks with every task's isLoading
\* and loadingError, the foreground, home and the shell fields stay.
C15_CatchClearsKernelLoadingOnly ==
  LET s == navigateToUrlAsync_catch(State)
  IN /\ s.isKernelLoading = FALSE
     /\ SameExcept(s, State, {"isKernelLoading"})

\* After the catch phase a task is still loading and has no error.
C15_Witness ==
  /\ last.type = "navigateToUrlAsync.catch"
  /\ ~isKernelLoading
  /\ \E url \in DOMAIN tasks :
       tasks[url].isLoading /\ tasks[url].loadingError = None

\* C16: logUncaughtError for a key of tasks sets that task's isLoading to
\* false and changes nothing else; for another url the state is unchanged.
C16_LogUncaughtError ==
  \A url \in UrlValues :
    LET s == logUncaughtError(State, url)
    IN IF ~MapHas(tasks, url)
       THEN s = State
       ELSE /\ DOMAIN s.tasks = DOMAIN tasks
            /\ \A other \in DOMAIN tasks \ {url} : s.tasks[other] = tasks[other]
            /\ s.tasks[url].isLoading = FALSE
            /\ \A f \in DOMAIN BrowserTask \ {"isLoading"} :
                 s.tasks[url][f] = tasks[url][f]
            /\ SameExcept(s, State, {"tasks"})

\* The only loading task stopped and isKernelLoading is still true.
C16_Witness ==
  /\ last.type = "logUncaughtError"
  /\ MapHas(tasks, last.url)
  /\ isKernelLoading
  /\ ~SomeTaskLoading

\* The two transitions that end with validateBrowserState.
FilteredActions == {"navigateToUrlAsync.begin", "showLoadingError"}

\* C17: begin navigation and showLoadingError alone can add a key to tasks,
\* and they alone run the filter: every other transition leaves the keys of
\* tasks as they are, but for the key clearTaskWithError evicts, and the
\* state after each of those two is one the filter leaves unchanged.
C17_OnlyBeginAndErrorAddTasks ==
  [][ /\ last'.type \notin FilteredActions =>
           /\ DOMAIN tasks' \subseteq DOMAIN tasks
           /\ DOMAIN tasks \ DOMAIN tasks' \subseteq
                IF last'.type = "clearTaskWithError" THEN {last'.url} ELSE {}
      /\ last'.type \in FilteredActions =>
           validateBrowserState(State)' = State' ]_vars

\* In a shell the foreground was switched and a task the filter would drop
\* is still there.
C17_Witness ==
  /\ last.type = "foregroundUrlAsync"
  /\ isShell
  /\ foregroundTaskUrl = last.url
  /\ validateBrowserState(State) # State

\* C18 as stated: while isShell = true, isHomeVisible is false.
C18_NoHomeInShell == isShell => ~isHomeVisible

\* C19: in every reachable state no task has isLoading = true and a
\* loadingError.
C19_NoLoadingTaskWithError ==
  \A url \in DOMAIN tasks :
    ~(tasks[url].isLoading /\ tasks[url].loadingError # None)

\* A task that showLoadingError had made is loading again: its error is gone.
C19_Witness ==
  /\ last.type = "setLoadingState"
  /\ last.flag
  /\ MapHas(tasks, last.url)
  /\ tasks[last.url].bundleUrl = NULL
  /\ tasks[last.url].isLoading
  /\ tasks[last.url].loadingError = None

\* Every url that begin navigation and showLoadingError carry is a non-empty
\* string.
NonEmptyNavUrls == \A url \in inputs.navUrls : Truthy(url)

\* C20: when begin navigation and showLoadingError carry non-empty urls only,
\* tasks never holds more than two entries, and right after either of them
\* with isShell = false tasks holds the foreground task alone.
C20_AtMostTwoTasks ==
  NonEmptyNavUrls =>
    /\ Cardinality(DOMAIN tasks) <= 2
    /\ (last.type \in FilteredActions /\ ~isShell)
         => DOMAIN tasks = {foregroundTaskUrl}

\* Out of a shell that held two tasks, showLoadingError left one task.
C20_Witness ==
  /\ NonEmptyNavUrls
  /\ last.type = "showLoadingError"
  /\ ~isShell
  /\ shellManifestUrl \notin {NULL, foregroundTaskUrl}
  /\ DOMAIN tasks = {foregroundTaskUrl}

====
